---- MODULE Spec2Model ----
(***************************************************************************)
(* Model of libinsight (src/insight.cpp, src/insight/insight.hpp): the     *)
(* variable registry, the frame encoder and the enable/pause/tick state    *)
(* machine of class Insight.  Bytes are naturals 0..255, texts are         *)
(* sequences of ASCII codes, uint32_t values are pairs <<hi, lo>> of       *)
(* 16-bit halves so that arithmetic modulo 2^32 is computed exactly.       *)
(***************************************************************************)
EXTENDS Integers, Sequences, FiniteSets, TLC

VARIABLES Enabled, Pause, LastTick, Period,
          NameBuffer, NameBufferPos, Payload, PayloadIdx, PayloadSize,
          mem, out, op, argState, argSync, ret, accepted, nsync,
          open, hdr, hdrAcc

vars == <<Enabled, Pause, LastTick, Period,
          NameBuffer, NameBufferPos, Payload, PayloadIdx, PayloadSize,
          mem, out, op, argState, argSync, ret, accepted, nsync,
          open, hdr, hdrAcc>>

registry == <<NameBuffer, NameBufferPos, Payload, PayloadIdx, PayloadSize>>
machine  == <<Enabled, Pause, LastTick, Period>>

----------------------------------------------------------------------------
(* Bounds of the exploration.                                              *)

\* number of sync adjustments of LastTick explored between two transmitting ticks
MaxSync == 1

----------------------------------------------------------------------------
(* Configuration (insight/config.hpp, not part of the sources at hand).    *)

INSIGHT_NUMVALUES == 4
INSIGHT_NAMEBUFFERSIZ == 12
INSIGHT_TASKPERIOD_MS == <<0, 10>>
INSIGHT_BINARYINFO_FMT == <<35>>

INSIGHT_DATABUFFERSIZ == 2 + (INSIGHT_NUMVALUES * 8)

\* uint8_t buffer[32] in Insight::transmit
TransmitBufferSiz == 32

----------------------------------------------------------------------------
(* Control characters and the type catalog.                                *)

SOH == 1
STX == 2
ETX == 3
EOT == 4
ESC == 27

dataType_bool    == 0
dataType_uint_8  == 1
dataType_uint_16 == 2
dataType_uint_32 == 3
dataType_uint_64 == 4
dataType_int_8   == 5
dataType_int_16  == 6
dataType_int_32  == 7
dataType_int_64  == 8
dataType_float   == 9
dataType_double  == 10

PayloadSpec ==
    [t \in 0..10 |->
        CASE t = 0  -> [siz |-> 1, hdr |-> <<98>>]
          [] t = 1  -> [siz |-> 1, hdr |-> <<117, 56>>]
          [] t = 2  -> [siz |-> 2, hdr |-> <<117, 49, 54>>]
          [] t = 3  -> [siz |-> 4, hdr |-> <<117, 51, 50>>]
          [] t = 4  -> [siz |-> 8, hdr |-> <<117, 54, 52>>]
          [] t = 5  -> [siz |-> 1, hdr |-> <<105, 56>>]
          [] t = 6  -> [siz |-> 2, hdr |-> <<105, 49, 54>>]
          [] t = 7  -> [siz |-> 4, hdr |-> <<105, 51, 50>>]
          [] t = 8  -> [siz |-> 8, hdr |-> <<105, 54, 52>>]
          [] t = 9  -> [siz |-> 4, hdr |-> <<102>>]
          [] t = 10 -> [siz |-> 8, hdr |-> <<100>>]]

----------------------------------------------------------------------------
(* uint32_t arithmetic on <<hi, lo>> pairs.                                *)

Half == 65536

Sub32(a, b) ==
    LET lo == a[2] - b[2]
        borrow == IF lo < 0 THEN 1 ELSE 0
    IN  <<(a[1] - b[1] - borrow + 2 * Half) % Half, (lo + Half) % Half>>

Twice32(a) ==
    LET lo == 2 * a[2]
    IN  <<(2 * a[1] + (lo \div Half)) % Half, lo % Half>>

Gt32(a, b) == a[1] > b[1] \/ (a[1] = b[1] /\ a[2] > b[2])

----------------------------------------------------------------------------
(* The caller: the variables it registers, their storage, its clock.       *)

\* [ptr, type, name] of the add(...) calls explored; names are ASCII texts:
\* "x", "y", "d" and "motor_speed" (which never fits the name buffer)
UserVars ==
    { [ptr |-> 1, type |-> dataType_uint_8,  name |-> <<120>>],
      [ptr |-> 2, type |-> dataType_float,   name |-> <<121>>],
      [ptr |-> 3, type |-> dataType_double,  name |-> <<100>>],
      [ptr |-> 4, type |-> dataType_uint_16,
       name |-> <<109, 111, 116, 111, 114, 95, 115, 112, 101, 101, 100>>] }

\* the registrations explored together with the whole clock: "d" alone
ClockVars == {v \in UserVars : v.type = dataType_double}

\* the registrations explored together with one clock reading: the others
RegVars == UserVars \ ClockVars

Ptrs == {v.ptr : v \in UserVars}

\* the in-memory bytes of the caller's variables, in two generations
MemImage(g) == [p \in Ptrs |-> [i \in 1..8 |-> 32 * p + 16 * g + i]]

\* wall clock readings handed to task(): 0, 5, 20, 2^32-15, 2^32-3
Millis == { <<0, 0>>, <<0, 5>>, <<0, 20>>, <<65535, 65521>>, <<65535, 65533>> }

\* periods handed to setPeriod(): 0, 10, 2^31
Periods == { <<0, 0>>, <<0, 10>>, <<32768, 0>> }

----------------------------------------------------------------------------
(* Helpers of the registry and of the frame encoder.                       *)

RECURSIVE Concat(_)
Concat(ss) == IF ss = <<>> THEN <<>> ELSE Head(ss) \o Concat(Tail(ss))

\* the C string stored at the start of a byte array: the bytes before the
\* first NUL
CStr(buf) ==
    IF \E i \in 1..Len(buf) : buf[i] = 0
    THEN LET z == CHOOSE i \in 1..Len(buf) :
                      buf[i] = 0 /\ \A j \in 1..(i - 1) : buf[j] # 0
         IN  SubSeq(buf, 1, z - 1)
    ELSE buf

\* snprintf(&buf[pos], size, "%s;", name): at most size-1 characters and a
\* terminating NUL are stored
SnprintfStore(buf, pos, size, name) ==
    LET text == name \o <<59>>
        n    == IF Len(text) < size THEN Len(text) ELSE size - 1
    IN  [i \in 1..Len(buf) |->
            IF i > pos /\ i <= pos + n THEN text[i - pos]
            ELSE IF i = pos + n + 1 THEN 0
            ELSE buf[i]]

\* the value snprintf returns: the length of the untruncated text
SnprintfLen(name) == Len(name) + 1

ZeroNameBuffer == [i \in 1..INSIGHT_NAMEBUFFERSIZ |-> 0]
ZeroPayload == [i \in 1..INSIGHT_NUMVALUES |-> [ptr |-> 0, type |-> 0]]

\* enable() walking the slots from the last to the first
TagList_Reversed ==
    Concat([i \in 1..PayloadIdx |->
               PayloadSpec[Payload[PayloadIdx + 1 - i].type].hdr \o <<59>>])

\* the loop of enable(): one "%s;" per registered slot
TagList ==
    Concat([i \in 1..PayloadIdx |-> PayloadSpec[Payload[i].type].hdr \o <<59>>])

HeaderFrame ==
    <<SOH>> \o INSIGHT_BINARYINFO_FMT \o CStr(NameBuffer) \o TagList \o <<ETX>>

\* the loop of transmit(): memcpy of siz bytes per registered slot
ValueBytes ==
    Concat([i \in 1..PayloadIdx |->
               SubSeq(mem[Payload[i].ptr], 1, PayloadSpec[Payload[i].type].siz)])

\* transmit() sending PayloadSize itself as the length
DataFrame_RawSize == <<STX, PayloadSize % 256>> \o ValueBytes

DataFrame == <<STX, (PayloadSize - 2) % 256>> \o ValueBytes

\* what reaches the stream: the frame when it fits buffer[32]; otherwise the
\* memcpy wrote past the buffer and the build decides (the frame, the frame
\* cut at the buffer's end, or nothing)
TransmitOutcomes ==
    IF Len(DataFrame) <= TransmitBufferSiz
    THEN {DataFrame}
    ELSE {DataFrame, SubSeq(DataFrame, 1, TransmitBufferSiz), <<>>}

----------------------------------------------------------------------------
(* Guards of the operations.                                               *)

\* add() without the registry lock
AddLocked_NoLock == PayloadIdx = INSIGHT_NUMVALUES

\* add() without the slot table check
AddLocked_NoCapacity == Enabled

AddLocked == Enabled \/ PayloadIdx = INSIGHT_NUMVALUES

AddNameSpace == INSIGHT_NAMEBUFFERSIZ - NameBufferPos

AddOverBudget(type) ==
    PayloadSize + PayloadSpec[type].siz > INSIGHT_DATABUFFERSIZ

\* add() accepting a text that leaves no room for the terminator
AddNameFits_OffByOne(name) ==
    SnprintfLen(name) > 0 /\ SnprintfLen(name) <= AddNameSpace

AddNameFits(name) ==
    SnprintfLen(name) > 0 /\ SnprintfLen(name) < AddNameSpace

\* enable() without the empty-registry check
EnableEmpty_Never == FALSE

EnableEmpty == PayloadIdx = 0

\* enable() without the early return
EnableNoop_Never(state) == FALSE

\* enable() returning early only for a disable of a Disabled system
EnableNoop_OnlyDisabled(state) == ~Enabled /\ ~state

\* enable(): the requested state is the current one
EnableNoop(state) == Enabled = state

\* what add() leaves in the name buffer when the name is accepted
AddStore(name) ==
    SnprintfStore(NameBuffer, NameBufferPos, AddNameSpace, name)

\* add() without the re-termination of the name buffer
AddFailStore_NoTerminate(name) ==
    SnprintfStore(NameBuffer, NameBufferPos, AddNameSpace, name)

\* what add() leaves in the name buffer when the name does not fit: the
\* truncated text, cut off again at the old write position
AddFailStore(name) ==
    [SnprintfStore(NameBuffer, NameBufferPos, AddNameSpace, name)
        EXCEPT ![NameBufferPos + 1] = 0]

\* transmit() without the Enabled check
TransmitRefused_Never == FALSE

\* transmit(): nothing is sent while Disabled
TransmitRefused == ~Enabled

\* the sync adjustment going back one period only
SyncTick_OnePeriod == Sub32(LastTick, Period)

SyncTick == Sub32(LastTick, Twice32(Period))

TaskIdle == ~Enabled \/ Pause

TaskDue(millis) == Gt32(Sub32(millis, LastTick), Period)

----------------------------------------------------------------------------
(* The operations.                                                         *)

Init ==
    /\ Enabled = FALSE
    /\ Pause = FALSE
    /\ LastTick = <<0, 0>>
    /\ Period = INSIGHT_TASKPERIOD_MS
    /\ NameBuffer = ZeroNameBuffer
    /\ NameBufferPos = 0
    /\ Payload = ZeroPayload
    /\ PayloadIdx = 0
    /\ PayloadSize = 2
    /\ mem = MemImage(0)
    /\ out = <<>>
    /\ op = "new"
    /\ argState = FALSE
    /\ argSync = FALSE
    /\ ret = TRUE
    /\ accepted = <<>>
    /\ nsync = 0
    /\ open = FALSE
    /\ hdr = <<>>
    /\ hdrAcc = <<>>

\* the byte sink's view of a call: which frame, if any, its bytes start
IsHeader(o) == Len(o) > 0 /\ o[1] = SOH
IsTerminate(o) == Len(o) > 0 /\ o[1] = EOT
IsData(o) == Len(o) > 0 /\ o[1] = STX

\* the stream as the host has seen it: whether the last header or terminate
\* frame was a header; the last header frame and the registrations it
\* announced, kept for as long as the header can still be referred to (a
\* change of the registrations made while Disabled supersedes it)
Observe ==
    /\ open' = IF IsHeader(out') THEN TRUE
               ELSE IF IsTerminate(out') THEN FALSE
               ELSE open
    /\ hdr' = IF IsHeader(out') THEN out'
              ELSE IF ~Enabled' /\ accepted' # accepted THEN <<>>
              ELSE hdr
    /\ hdrAcc' = IF IsHeader(out') THEN accepted'
                 ELSE IF ~Enabled' /\ accepted' # accepted THEN <<>>
                 ELSE hdrAcc

Call(name, state, sync) ==
    /\ op' = name
    /\ argState' = state
    /\ argSync' = sync

\* reset() that leaves the payload total as it was
reset_KeepsTotal ==
    /\ NameBuffer' = ZeroNameBuffer
    /\ NameBufferPos' = 0
    /\ Payload' = ZeroPayload
    /\ PayloadIdx' = 0
    /\ accepted' = <<>>
    /\ Call("reset", FALSE, FALSE)
    /\ ret' = TRUE
    /\ out' = <<>>
    /\ UNCHANGED <<machine, mem, nsync, PayloadSize>>
    /\ Observe

reset ==
    /\ NameBuffer' = ZeroNameBuffer
    /\ NameBufferPos' = 0
    /\ Payload' = ZeroPayload
    /\ PayloadIdx' = 0
    /\ PayloadSize' = 2
    /\ accepted' = <<>>
    /\ Call("reset", FALSE, FALSE)
    /\ ret' = TRUE
    /\ out' = <<>>
    /\ UNCHANGED <<machine, mem, nsync>>
    /\ Observe

setPeriod(millis) ==
    /\ Period' = millis
    /\ Call("setPeriod", FALSE, FALSE)
    /\ ret' = TRUE
    /\ out' = <<>>
    /\ UNCHANGED <<Enabled, Pause, LastTick, registry, mem, accepted, nsync>>
    /\ Observe

\* enable() whose disable path also clears the registry
enable_DisableClears(state, sync) ==
    /\ sync => nsync < MaxSync
    /\ Call("enable", state, sync)
    /\ IF EnableNoop(state)
       THEN /\ ret' = TRUE
            /\ out' = <<>>
            /\ UNCHANGED <<Enabled, LastTick, nsync, registry>>
       ELSE IF state
       THEN IF EnableEmpty
            THEN /\ ret' = FALSE
                 /\ out' = <<>>
                 /\ UNCHANGED <<Enabled, LastTick, nsync, registry>>
            ELSE /\ out' = HeaderFrame
                 /\ LastTick' = IF sync THEN SyncTick ELSE LastTick
                 /\ nsync' = IF sync THEN nsync + 1 ELSE nsync
                 /\ Enabled' = TRUE
                 /\ ret' = TRUE
                 /\ UNCHANGED registry
       ELSE /\ out' = <<EOT>>
            /\ Enabled' = FALSE
            /\ ret' = TRUE
            /\ NameBuffer' = ZeroNameBuffer
            /\ NameBufferPos' = 0
            /\ Payload' = ZeroPayload
            /\ PayloadIdx' = 0
            /\ PayloadSize' = 2
            /\ UNCHANGED <<LastTick, nsync>>
    /\ UNCHANGED <<Pause, Period, mem, accepted>>
    /\ Observe

enable(state, sync) ==
    /\ sync => nsync < MaxSync
    /\ Call("enable", state, sync)
    /\ IF EnableNoop(state)
       THEN /\ ret' = TRUE
            /\ out' = <<>>
            /\ UNCHANGED <<Enabled, LastTick, nsync>>
       ELSE IF state
       THEN IF EnableEmpty
            THEN /\ ret' = FALSE
                 /\ out' = <<>>
                 /\ UNCHANGED <<Enabled, LastTick, nsync>>
            ELSE /\ out' = HeaderFrame
                 /\ LastTick' = IF sync THEN SyncTick ELSE LastTick
                 /\ nsync' = IF sync THEN nsync + 1 ELSE nsync
                 /\ Enabled' = TRUE
                 /\ ret' = TRUE
       ELSE /\ out' = <<EOT>>
            /\ Enabled' = FALSE
            /\ ret' = TRUE
            /\ UNCHANGED <<LastTick, nsync>>
    /\ UNCHANGED <<Pause, Period, registry, mem, accepted>>
    /\ Observe

\* pause() that also switches the transmission off when pausing
pause_Disables(state, sync) ==
    /\ sync => nsync < MaxSync
    /\ Call("pause", state, sync)
    /\ Pause' = state
    /\ Enabled' = (Enabled /\ ~state)
    /\ LastTick' = IF sync THEN SyncTick ELSE LastTick
    /\ nsync' = IF sync THEN nsync + 1 ELSE nsync
    /\ ret' = TRUE
    /\ out' = <<>>
    /\ UNCHANGED <<Period, registry, mem, accepted>>
    /\ Observe

pause(state, sync) ==
    /\ sync => nsync < MaxSync
    /\ Call("pause", state, sync)
    /\ Pause' = state
    /\ LastTick' = IF sync THEN SyncTick ELSE LastTick
    /\ nsync' = IF sync THEN nsync + 1 ELSE nsync
    /\ ret' = TRUE
    /\ out' = <<>>
    /\ UNCHANGED <<Enabled, Period, registry, mem, accepted>>
    /\ Observe

add(ptr, type, name) ==
    /\ Call("add", FALSE, FALSE)
    /\ out' = <<>>
    /\ IF AddLocked \/ AddNameSpace = 0 \/ AddOverBudget(type)
       THEN /\ ret' = FALSE
            /\ UNCHANGED <<registry, accepted>>
       ELSE IF AddNameFits(name)
       THEN /\ NameBuffer' = AddStore(name)
            /\ NameBufferPos' = (NameBufferPos + SnprintfLen(name)) % 256
            /\ Payload' = [Payload EXCEPT ![PayloadIdx + 1] =
                               [ptr |-> ptr, type |-> type]]
            /\ PayloadSize' = (PayloadSize + PayloadSpec[type].siz) % 256
            /\ PayloadIdx' = PayloadIdx + 1
            /\ accepted' = Append(accepted,
                               [ptr |-> ptr, type |-> type, name |-> name])
            /\ ret' = TRUE
       ELSE /\ NameBuffer' = AddFailStore(name)
            /\ ret' = FALSE
            /\ UNCHANGED <<NameBufferPos, Payload, PayloadIdx, PayloadSize,
                           accepted>>
    /\ UNCHANGED <<machine, mem, nsync>>
    /\ Observe

transmit ==
    /\ Call("transmit", FALSE, FALSE)
    /\ IF TransmitRefused
       THEN /\ ret' = FALSE
            /\ out' = <<>>
       ELSE /\ ret' = TRUE
            /\ out' \in TransmitOutcomes
    /\ UNCHANGED <<machine, registry, mem, accepted, nsync>>
    /\ Observe

task(millis) ==
    /\ Call("task", FALSE, FALSE)
    /\ ret' = TRUE
    /\ IF TaskIdle
       THEN /\ out' = <<>>
            /\ UNCHANGED <<LastTick, nsync>>
       ELSE IF TaskDue(millis)
       THEN /\ out' \in TransmitOutcomes
            /\ LastTick' = millis
            /\ nsync' = 0
       ELSE /\ out' = <<>>
            /\ UNCHANGED <<LastTick, nsync>>
    /\ UNCHANGED <<Enabled, Pause, Period, registry, mem, accepted>>
    /\ Observe

\* the caller's variables change between the calls
poke(g) ==
    /\ mem # MemImage(g)
    /\ mem' = MemImage(g)
    /\ Call("poke", FALSE, FALSE)
    /\ ret' = TRUE
    /\ out' = <<>>
    /\ UNCHANGED <<machine, registry, accepted, nsync>>
    /\ Observe

Step(V, M, P) ==
    \/ reset
    \/ \E p \in P : setPeriod(p)
    \/ \E s \in BOOLEAN, y \in BOOLEAN : enable(s, y)
    \/ \E s \in BOOLEAN, y \in BOOLEAN : pause(s, y)
    \/ \E v \in V : add(v.ptr, v.type, v.name)
    \/ transmit
    \/ \E m \in M : task(m)
    \/ \E g \in 0..1 : poke(g)

\* registrations of "x", "y" and "motor_speed", one clock reading and the
\* default period
Next == Step(RegVars, {<<0, 20>>}, {INSIGHT_TASKPERIOD_MS})

Spec == Init /\ [][Next]_vars

\* registrations of "d", every clock reading and period
NextClock == Step(ClockVars, Millis, Periods)

SpecClock == Init /\ [][NextClock]_vars

----------------------------------------------------------------------------
(* Properties.                                                             *)

\* what the registrations accepted since the last reset announce and carry
NameListOf(acc) == Concat([i \in 1..Len(acc) |-> acc[i].name \o <<59>>])

TagListOf(acc) ==
    Concat([i \in 1..Len(acc) |-> PayloadSpec[acc[i].type].hdr \o <<59>>])

RECURSIVE SizeSum(_)
SizeSum(acc) ==
    IF acc = <<>> THEN 0
    ELSE PayloadSpec[Head(acc).type].siz + SizeSum(Tail(acc))

ValuesOf(acc, m) ==
    Concat([i \in 1..Len(acc) |->
               SubSeq(m[acc[i].ptr], 1, PayloadSpec[acc[i].type].siz)])

\* C1: while the system is Enabled (from a successful enable(true) to the
\* next successful enable(false)) every add call returns false and leaves
\* the slots, the name buffer and the payload total as they were.
C1_RegistryLock ==
    [][(Enabled /\ op' = "add")
          => (ret' = FALSE /\ UNCHANGED <<registry, accepted>>)]_vars

\* an add refused although a slot and name space were free: only the lock
\* can have refused it
C1_Witness ==
    /\ op = "add" /\ ~ret /\ Enabled
    /\ PayloadIdx \in 1..(INSIGHT_NUMVALUES - 1)
    /\ NameBufferPos + 2 < INSIGHT_NAMEBUFFERSIZ

\* C2: a tick(now) call writes one data frame if the system is Enabled, not
\* Paused and (now - LastTick) mod 2^32 > Period, and writes nothing
\* otherwise.
C2_TickTransmitsIffDue ==
    [][\A m \in Millis :
          (op' = "task" /\ task(m))
             => IF Enabled /\ ~Pause /\ Gt32(Sub32(m, LastTick), Period)
                THEN out' = <<STX, SizeSum(accepted)>> \o ValuesOf(accepted, mem)
                ELSE out' = <<>>]_vars

\* C3: while Enabled, the tick that follows pause(false, sync=true) writes
\* a data frame, whatever Period, LastTick and now are.
C3_PauseSyncThenTick ==
    [][(Enabled /\ op = "pause" /\ ~argState /\ argSync /\ op' = "task")
          => (Len(out') >= 2 /\ out'[1] = STX)]_vars

\* C4: the tick that follows an enable(true, sync=true) that took the
\* system from Disabled to Enabled while not Paused writes a data frame.
C4_EnableSyncThenTick ==
    [][(op = "enable" /\ argState /\ argSync /\ ret /\ Len(out) > 0
           /\ Enabled /\ ~Pause /\ op' = "task")
          => (Len(out') >= 2 /\ out'[1] = STX)]_vars

\* C5: while the system stays Enabled no operation changes the registry.
C5_FrozenWhileEnabled ==
    [][(Enabled /\ Enabled') => UNCHANGED <<registry, accepted>>]_vars

\* C6: transmit() while Enabled writes exactly STX, the sum of the slots'
\* sizes, and the slots' current value bytes in registration order.
C6_DataFrameBytes ==
    [][(op' = "transmit" /\ Enabled)
          => (/\ ret' = TRUE
              /\ out' = <<STX, SizeSum(accepted)>>
                           \o ValuesOf(accepted, mem))]_vars

\* C7: an enable(true) that takes the system from Disabled to Enabled
\* writes SOH, the preamble, every accepted name with ';' in registration
\* order, the tag of every slot with ';' in the same order, and ETX; the
\* i-th name and the i-th tag are those of the i-th accepted registration.
C7_HeaderFrameBytes ==
    [][(op' = "enable" /\ ~Enabled /\ Enabled')
          => (/\ ret' = TRUE
              /\ Len(accepted) = PayloadIdx
              /\ out' = <<SOH>> \o INSIGHT_BINARYINFO_FMT
                           \o NameListOf(accepted) \o TagListOf(accepted)
                           \o <<ETX>>)]_vars

\* uint8 "x" then float "y" enabled: "x;y;" then "u8;f;"
C7_Witness ==
    /\ op = "enable" /\ Enabled
    /\ Len(accepted) = 2
    /\ accepted[1].type = dataType_uint_8 /\ accepted[1].name = <<120>>
    /\ accepted[2].type = dataType_float /\ accepted[2].name = <<121>>
    /\ out = <<SOH>> \o INSIGHT_BINARYINFO_FMT
                \o <<120, 59, 121, 59>> \o <<117, 56, 59, 102, 59>> \o <<ETX>>

\* C8: enable(true) while Disabled with no slot registered returns false,
\* writes nothing and changes no state, with and without sync.
C8_EnableEmptyFails ==
    [][(op' = "enable" /\ argState' /\ ~Enabled /\ PayloadIdx = 0)
          => (/\ ret' = FALSE
              /\ out' = <<>>
              /\ UNCHANGED <<machine, registry, accepted>>)]_vars

\* a refused enable(true, sync=true) while paused
C8_Witness ==
    /\ op = "enable" /\ argState /\ argSync /\ ~ret /\ Pause
    /\ ~Enabled /\ PayloadIdx = 0 /\ out = <<>>

\* C9: at most INSIGHT_NUMVALUES slots are registered, and an add made when
\* the table is full returns false and leaves the count.
C9_SlotCountBounded ==
    /\ [](PayloadIdx <= INSIGHT_NUMVALUES)
    /\ [][(op' = "add" /\ PayloadIdx = INSIGHT_NUMVALUES)
             => (ret' = FALSE /\ PayloadIdx' = INSIGHT_NUMVALUES)]_vars

\* an add refused by a full slot table alone
C9_Witness ==
    /\ op = "add" /\ ~ret /\ ~Enabled
    /\ PayloadIdx = INSIGHT_NUMVALUES

\* C10: an add that returns false leaves the slot count, the slots, the
\* payload total, the write position and the name list read as a C string
\* unchanged, and the name buffer terminated at the write position.
C10_FailedAddLeavesNothing ==
    [][(op' = "add" /\ ret' = FALSE)
          => (/\ PayloadIdx' = PayloadIdx
              /\ Payload' = Payload
              /\ PayloadSize' = PayloadSize
              /\ NameBufferPos' = NameBufferPos
              /\ CStr(NameBuffer') = CStr(NameBuffer)
              /\ CStr(NameBuffer') = NameListOf(accepted)
              /\ NameBuffer'[NameBufferPos' + 1] = 0)]_vars

\* a name that did not fit was refused after names had been accepted, and
\* its truncated text still lies behind the terminator
C10_Witness ==
    /\ op = "add" /\ ~ret /\ ~Enabled
    /\ PayloadIdx \in 1..(INSIGHT_NUMVALUES - 1)
    /\ \E i \in (NameBufferPos + 2)..INSIGHT_NAMEBUFFERSIZ : NameBuffer[i] # 0
    /\ CStr(NameBuffer) = NameListOf(accepted)

\* C11: while Enabled and Paused a tick(now) call writes nothing and leaves
\* Enabled true, whatever now, LastTick and Period are, and a direct
\* transmit() returns true and writes exactly one data frame.
C11_PausedTickSilent ==
    [][(Enabled /\ Pause)
          => (/\ op' = "task" => (out' = <<>> /\ Enabled')
              /\ op' = "transmit"
                    => (/\ ret' = TRUE
                        /\ out' = <<STX, SizeSum(accepted)>>
                                     \o ValuesOf(accepted, mem)))]_vars

\* C12: enable(s) called in state s returns true, writes no byte and changes
\* no state, with and without sync.
C12_EnableSameStateNoop ==
    [][(op' = "enable" /\ argState' = Enabled)
          => (/\ ret' = TRUE
              /\ out' = <<>>
              /\ UNCHANGED <<machine, registry, accepted>>)]_vars

\* enable(true, sync=true) answered while already Enabled, at a LastTick
\* that a sync adjustment would have changed
C12_Witness ==
    /\ op = "enable" /\ argState /\ argSync /\ ret /\ Enabled
    /\ out = <<>>
    /\ SyncTick # LastTick

\* C13: pause() never changes Enabled and writes no byte; enable() never
\* changes the paused flag.
C13_FlagsIndependent ==
    [][/\ op' = "pause" => (Enabled' = Enabled /\ out' = <<>>
                               /\ Pause' = argState')
       /\ op' = "enable" => Pause' = Pause]_vars

\* pause(true) taken while Enabled, in a session whose header is out and
\* not yet terminated
C13_Witness ==
    /\ op = "pause" /\ argState /\ Pause
    /\ Enabled /\ open

\* C14: transmit() while Disabled returns false, writes nothing and changes
\* no state; the transmit() that follows a successful enable(true) returns
\* true.
C14_TransmitDisabledFails ==
    [][/\ (op' = "transmit" /\ ~Enabled)
            => (/\ ret' = FALSE
                /\ out' = <<>>
                /\ UNCHANGED <<machine, registry, accepted, mem>>)
       /\ (op = "enable" /\ argState /\ ret /\ op' = "transmit")
            => ret' = TRUE]_vars

\* a transmit() refused while Disabled although slots are registered
C14_Witness ==
    /\ op = "transmit" /\ ~ret /\ ~Enabled /\ out = <<>>
    /\ PayloadIdx > 0

C16_NameBufferHoldsNames ==
    /\ NameBufferPos < INSIGHT_NAMEBUFFERSIZ
    /\ NameBufferPos = Len(NameListOf(accepted))
    /\ NameBuffer[NameBufferPos + 1] = 0
    /\ CStr(NameBuffer) = NameListOf(accepted)

\* names accepted after a longer name had been refused, whose cut-off text
\* still lies behind the terminator
C16_Witness ==
    /\ op = "add" /\ ret /\ Len(accepted) >= 2
    /\ \E i \in (NameBufferPos + 2)..INSIGHT_NAMEBUFFERSIZ : NameBuffer[i] # 0

\* C17: a disable leaves the registry as it is; an enable(true) made while
\* the registrations are those of the last header succeeds and writes that
\* header again; and an add made right after the disable, with a free slot
\* and room for its name, is accepted and appended after the existing slots.
C17_DisableKeepsRegistry ==
    [][/\ (op' = "enable" /\ Enabled /\ ~Enabled')
            => UNCHANGED <<registry, accepted>>
       /\ (op' = "enable" /\ argState' /\ ~Enabled
              /\ hdr # <<>> /\ accepted = hdrAcc)
            => (ret' = TRUE /\ out' = hdr)
       /\ \A v \in UserVars :
            (op = "enable" /\ IsTerminate(out)
                /\ op' = "add" /\ add(v.ptr, v.type, v.name)
                /\ PayloadIdx < INSIGHT_NUMVALUES
                /\ Len(v.name) + 1 < INSIGHT_NAMEBUFFERSIZ - NameBufferPos)
              => (/\ ret' = TRUE
                  /\ PayloadIdx' = PayloadIdx + 1
                  /\ \A i \in 1..PayloadIdx : Payload'[i] = Payload[i]
                  /\ Payload'[PayloadIdx'] = [ptr |-> v.ptr, type |-> v.type]
                  /\ accepted' = Append(accepted, v))]_vars

\* the state a disable leaves: EOT written, two slots still registered and
\* the last header still theirs
C17_Witness ==
    /\ op = "enable" /\ ~argState /\ IsTerminate(out) /\ ~Enabled
    /\ PayloadIdx = 2 /\ Len(accepted) = 2
    /\ hdr # <<>> /\ accepted = hdrAcc

C19_LastTickChanges ==
    [][/\ \A m \in Millis :
            (op' = "task" /\ task(m))
               => LastTick' = IF Enabled /\ ~Pause
                                  /\ Gt32(Sub32(m, LastTick), Period)
                               THEN m ELSE LastTick
       /\ op' = "pause"
            => LastTick' = IF argSync'
                           THEN Sub32(LastTick, Twice32(Period))
                           ELSE LastTick
       /\ op' = "enable"
            => LastTick' = IF argSync' /\ argState' /\ ~Enabled /\ Enabled'
                           THEN Sub32(LastTick, Twice32(Period))
                           ELSE LastTick
       /\ op' \notin {"task", "pause", "enable"}
            => LastTick' = LastTick]_vars

\* a sync request at LastTick = 0 and Period = 10 left 2^32 - 20
C19_Witness ==
    /\ op \in {"pause", "enable"} /\ argSync
    /\ Period = <<0, 10>>
    /\ LastTick = <<65535, 65516>>

\* C20: a header frame is written only when no session is open, a terminate
\* frame and a data frame only when one is, and a call writes nothing else:
\* the stream is (Header Data* Terminate)* with a possibly unfinished group.
C20_FrameSequence ==
    /\ open = FALSE \/ hdr # <<>>
    /\ [][/\ out' = <<>> \/ IsHeader(out') \/ IsTerminate(out') \/ IsData(out')
          /\ IsHeader(out') => (~open /\ open')
          /\ IsTerminate(out') => (open /\ ~open' /\ out' = <<EOT>>)
          /\ IsData(out') => (open /\ open')
          /\ out' = <<>> => open' = open]_vars

\* a terminate frame closed a session whose header came before it
C20_Witness ==
    /\ IsTerminate(out) /\ ~open /\ hdr # <<>>

\* C21: every data frame agrees with the last header written before it: the
\* header announced as many tags as the frame carries slot values, the
\* frame's length byte is the sum of the sizes of the announced tags, and
\* that many value bytes follow it.
C21_DataAgreesWithHeader ==
    [][IsData(out')
          => (/\ PayloadIdx' = Len(hdrAcc')
              /\ Len(out') = 2 + SizeSum(hdrAcc')
              /\ out'[2] = SizeSum(hdrAcc'))]_vars

\* C22: in every reachable state the data frame transmit() assembles, the
\* 2 bookkeeping bytes plus the payload of the accepted registrations, fits
\* its staging buffer of 32 bytes: the payload total is at most 30.
C22_FrameFitsBuffer ==
    /\ PayloadSize <= TransmitBufferSiz
    /\ SizeSum(accepted) <= TransmitBufferSiz - 2

====
